---- MODULE Spec2Model ----
(***************************************************************************)
(* Bitcoin Bollinger-band alert dashboard: the App component's polling     *)
(* workflow (App.tsx), the price service and the Bollinger-band indicator  *)
(* (services/geminiService.ts).                                            *)
(*                                                                         *)
(* JavaScript numbers are IEEE-754 binary floating point with round to     *)
(* nearest, ties to even.  The model keeps that arithmetic and its         *)
(* rounding, with a significand of MantBits bits instead of 53, so that    *)
(* TLC can enumerate it.  A number is a pair <<m, e>> standing for m * 2^e *)
(* with m = 0 or 2^(MantBits-1) <= |m| < 2^MantBits.                       *)
(***************************************************************************)
EXTENDS Integers, Sequences, FiniteSets, TLC

\* ------------------------------------------------------------------ bounds
MantBits == 8

\* ------------------------------------------------- floating-point numbers
Pow2(n) == 2 ^ n

Abs(x) == IF x < 0 THEN 0 - x ELSE x

Zero == <<0, 0>>

\* The number nearest to (n / d) * 2^e, ties to even (n >= 0, d > 0).
RECURSIVE RoundRat(_, _, _)
RoundRat(n, d, e) ==
    IF n = 0 THEN Zero
    ELSE IF n >= d * Pow2(MantBits) THEN RoundRat(n, 2 * d, e + 1)
    ELSE IF n < d * Pow2(MantBits - 1) THEN RoundRat(2 * n, d, e - 1)
    ELSE LET q  == n \div d
             r  == n % d
             q1 == IF 2 * r > d \/ (2 * r = d /\ q % 2 = 1) THEN q + 1 ELSE q
         IN  IF q1 = Pow2(MantBits) THEN <<Pow2(MantBits - 1), e + 1>>
                                    ELSE <<q1, e>>

\* The number nearest to (n / d) * 2^e for n of either sign.
RoundSigned(n, d, e) ==
    LET r == RoundRat(Abs(n), d, e)
    IN  IF n < 0 THEN <<0 - r[1], r[2]>> ELSE r

\* The number an integer literal denotes.
Flt(n) == RoundSigned(n, 1, 0)

\* a + b, rounded.  An operand below a quarter of the other's last place
\* cannot change the rounded result.
FAdd(a, b) ==
    IF a[1] = 0 THEN b
    ELSE IF b[1] = 0 THEN a
    ELSE IF a[2] - b[2] > MantBits + 2 THEN a
    ELSE IF b[2] - a[2] > MantBits + 2 THEN b
    ELSE LET e == IF a[2] < b[2] THEN a[2] ELSE b[2]
         IN  RoundSigned(a[1] * Pow2(a[2] - e) + b[1] * Pow2(b[2] - e), 1, e)

FNeg(a) == <<0 - a[1], a[2]>>

FSub(a, b) == FAdd(a, FNeg(b))

FMul(a, b) == RoundSigned(a[1] * b[1], 1, a[2] + b[2])

\* a / n for a positive integer n, rounded.
FDivInt(a, n) == RoundSigned(a[1], n, a[2])

\* floor(sqrt(x)) for 2^(2*MantBits-2) <= x < 2^(2*MantBits).
ISqrt(x) ==
    CHOOSE s \in Pow2(MantBits - 1) .. Pow2(MantBits) :
        s * s <= x /\ (s + 1) * (s + 1) > x

\* sqrt(x * 2^e), rounded, for x > 0 and e even; x is scaled by powers of 4
\* (exactly) until its root has MantBits bits.
RECURSIVE SqrtScaled(_, _)
SqrtScaled(x, e) ==
    IF x < Pow2(2 * MantBits - 2) THEN SqrtScaled(4 * x, e - 2)
    ELSE LET s  == ISqrt(x)
             s1 == IF x > s * s + s THEN s + 1 ELSE s
         IN  RoundRat(s1, 1, e \div 2)

\* Math.sqrt of a non-negative number, correctly rounded.
FSqrt(a) ==
    IF a[1] = 0 THEN Zero
    ELSE IF a[2] % 2 = 0 THEN SqrtScaled(a[1], a[2])
    ELSE SqrtScaled(2 * a[1], a[2] - 1)

\* a < b
FLess(a, b) ==
    IF a[1] <= 0 /\ b[1] > 0 THEN a[1] < 0 \/ b[1] > 0
    ELSE IF a[1] < 0 /\ b[1] = 0 THEN TRUE
    ELSE IF a[1] >= 0 /\ b[1] <= 0 THEN FALSE
    ELSE IF a[1] > 0
         THEN a[2] < b[2] \/ (a[2] = b[2] /\ a[1] < b[1])
         ELSE a[2] > b[2] \/ (a[2] = b[2] /\ a[1] < b[1])

\* a >= b and a <= b
FGeq(a, b) == ~FLess(a, b)
FLeq(a, b) == ~FLess(b, a)

\* ------------------------------------------------------ Bollinger bands
NULL == "null"

\* The absence value of calculateBollingerBands and of currentPrice.
NoBands == [present |-> FALSE, upper |-> Zero, middle |-> Zero, lower |-> Zero]
NoPrice == <<>>

period == 20
stdDev == 2

\* data.slice(-n): the last n elements (all of them when there are fewer).
SliceLast(data, n) ==
    IF Len(data) <= n THEN data
    ELSE SubSeq(data, Len(data) - n + 1, Len(data))

\* slice.reduce((acc, val) => acc + val, 0), left to right.
RECURSIVE SumOf(_)
SumOf(s) ==
    IF s = <<>> THEN Zero
    ELSE FAdd(SumOf(SubSeq(s, 1, Len(s) - 1)), s[Len(s)])

\* slice.reduce((acc, val) => acc + (val - middle) ** 2, 0), left to right.
RECURSIVE SumSqDev(_, _)
SumSqDev(s, middle) ==
    IF s = <<>> THEN Zero
    ELSE LET d == FSub(s[Len(s)], middle)
         IN  FAdd(SumSqDev(SubSeq(s, 1, Len(s) - 1), middle), FMul(d, d))

\* Mutant: the mean is taken over period - 1.
calculateBollingerBandsShortMean(data) ==
    IF Len(data) < period THEN NoBands
    ELSE LET slice    == SliceLast(data, period)
             middle   == FDivInt(SumOf(slice), period - 1)
             variance == FDivInt(SumSqDev(slice, middle), period)
             sd       == FSqrt(variance)
         IN  [present |-> TRUE,
              upper   |-> FAdd(middle, FMul(sd, Flt(stdDev))),
              middle  |-> middle,
              lower   |-> FSub(middle, FMul(sd, Flt(stdDev)))]

calculateBollingerBands(data) ==
    IF Len(data) < period THEN NoBands
    ELSE LET slice    == SliceLast(data, period)
             middle   == FDivInt(SumOf(slice), period)
             variance == FDivInt(SumSqDev(slice, middle), period)
             sd       == FSqrt(variance)
         IN  [present |-> TRUE,
              upper   |-> FAdd(middle, FMul(sd, Flt(stdDev))),
              middle  |-> middle,
              lower   |-> FSub(middle, FMul(sd, Flt(stdDev)))]

\* ------------------------------------------------------------ constants
COOLDOWN_PERIOD == 300000
HistoryKeep == 19
HistoryFetch == 20
AlertsKeep == 9

\* NotificationPermission | PermissionState
PermissionStates == {"default", "granted", "denied", "prompt"}

\* -------------------------------------------------- bounds of the inputs
StartTime == 1000000   \* Date.now() when the view is constructed

\* Spec: the life cycle of the view.
MaxPolls == 1          \* pollPrice calls started in one behaviour
MaxInFlight == 1       \* pollPrice calls awaiting their fetch at once
MaxEffects == 3        \* runs of the polling effect in one behaviour
MaxTicks == 1          \* clock advances in one behaviour

\* SpecStrict: the life cycle under React.StrictMode in development.
StrictMaxPolls == 1
StrictMaxInFlight == 1
StrictMaxEffects == 3
StrictMaxTicks == 1

\* SpecPoll: polling and alerting.
PollMaxPolls == 2
PollMaxInFlight == 2
PollMaxEffects == 2
PollMaxTicks == 1

\* SpecDeep: a long run of alerts.
DeepMaxPolls == 11
DeepMaxInFlight == 1
DeepMaxEffects == 2
DeepMaxTicks == 10

Flat(v, n) == [i \in 1 .. n |-> v]

\* Prices the gateway returns: 10 and 12 (whose sums over a window are
\* exact) and 201 (whose sums are rounded).
Prices == {Flt(10), Flt(12), Flt(201)}

\* data.prices.map(p => p[1]) of the market chart: no point, a window,
\* more than a window.
Charts ==
    { <<>>,
      Flat(Flt(201), HistoryFetch),
      <<Flt(201), Flt(12)>> \o Flat(Flt(10), HistoryFetch) }

\* The environment of a specification: what the gateway, the browser and
\* the clock deliver, and how much of it.  With idle false the clock is
\* only seen to advance while a cooldown is running.
Env ==
    [charts |-> {<<Flt(201), Flt(12)>> \o Flat(Flt(10), HistoryFetch)},
     prices |-> {Flt(10)},
     statuses |-> {"granted", "denied"},
     steps |-> {COOLDOWN_PERIOD + 1},
     builds |-> {"production"},
     idle |-> TRUE,
     polls |-> MaxPolls, inflight |-> MaxInFlight,
     effects |-> MaxEffects, ticks |-> MaxTicks]

StrictEnv ==
    [charts |-> {<<>>, Flat(Flt(10), HistoryFetch)},
     prices |-> {Flt(10)},
     statuses |-> {"granted"},
     steps |-> {COOLDOWN_PERIOD + 1},
     builds |-> {"development"},
     idle |-> TRUE,
     polls |-> StrictMaxPolls, inflight |-> StrictMaxInFlight,
     effects |-> StrictMaxEffects, ticks |-> StrictMaxTicks]

PollEnv ==
    [charts |-> Charts \ {<<>>},
     prices |-> Prices,
     statuses |-> {"granted"},
     steps |-> {COOLDOWN_PERIOD, COOLDOWN_PERIOD + 1},
     builds |-> {"production"},
     idle |-> TRUE,
     polls |-> PollMaxPolls, inflight |-> PollMaxInFlight,
     effects |-> PollMaxEffects, ticks |-> PollMaxTicks]

DeepEnv ==
    [charts |-> {Flat(Flt(10), HistoryFetch)},
     prices |-> {Flt(10)},
     statuses |-> {"granted"},
     steps |-> {COOLDOWN_PERIOD + 1},
     builds |-> {"production"},
     idle |-> FALSE,
     polls |-> DeepMaxPolls, inflight |-> DeepMaxInFlight,
     effects |-> DeepMaxEffects, ticks |-> DeepMaxTicks]

\* ---------------------------------------------------------------- state
VARIABLES
    isLoading,           \* useState(true)
    error,               \* useState<string | null>(null)
    priceHistory,        \* useState<number[]>([])
    currentPrice,        \* useState<number | null>(null)
    bbands,              \* useState<bands | null>(null)
    notificationStatus,  \* useState('default')
    alerts,              \* useState<{message, time}[]>([])
    isPollingManually,   \* useState(false)
    lastAlertTime,       \* useRef<number>(0)
    mounted,             \* the view exists (React drops updates after unmount)
    effects,             \* runs of the polling effect, in order
    polls,               \* pollPrice calls awaiting fetchBitcoinPrice
    started,             \* number of pollPrice calls started so far
    now,                 \* Date.now()
    ticks,               \* number of clock advances so far
    notifications,       \* notifications handed to the dispatcher, in order
    lastEvent            \* the last step that set view state (history variable)

vars == <<isLoading, error, priceHistory, currentPrice, bbands,
          notificationStatus, alerts, isPollingManually, lastAlertTime,
          mounted, effects, polls, started, now, ticks, notifications,
          lastEvent>>

viewState == <<isLoading, error, priceHistory, currentPrice, bbands,
               notificationStatus, alerts, isPollingManually>>

\* ------------------------------------------------------------- helpers
\* fetchBitcoinHistory's result for a well-formed chart: the last 20 prices.
fetchBitcoinHistory(chart) == SliceLast(chart, HistoryFetch)

\* Mutant: slice(-20), one entry too many is kept.
NewHistoryKeepsWindow(prevHistory, price) ==
    SliceLast(prevHistory, HistoryKeep + 1) \o <<price>>

\* Mutant: the new price is put first.
NewHistoryPrepends(prevHistory, price) ==
    <<price>> \o (IF Len(prevHistory) <= HistoryKeep THEN prevHistory
                  ELSE SubSeq(prevHistory, 1, HistoryKeep))

\* [...prevHistory.slice(-19), price]
NewHistory(prevHistory, price) ==
    SliceLast(prevHistory, HistoryKeep) \o <<price>>

\* Mutant: prev.slice(0, 10), one entry too many is kept.
NewAlertsKeepsTen(prev, entry) ==
    <<entry>> \o (IF Len(prev) <= AlertsKeep + 1 THEN prev
                  ELSE SubSeq(prev, 1, AlertsKeep + 1))

\* [{message, time}, ...prev.slice(0, 9)]
NewAlerts(prev, entry) ==
    <<entry>> \o (IF Len(prev) <= AlertsKeep THEN prev
                  ELSE SubSeq(prev, 1, AlertsKeep))

\* The histories a behaviour can hold: a fetched history and the prices
\* polled after it.
RECURSIVE HistoriesAfter(_, _)
HistoriesAfter(H, n) ==
    IF n = 0 THEN H
    ELSE HistoriesAfter(H \cup {NewHistory(h, p) : h \in H, p \in Prices},
                        n - 1)

\* calculateBollingerBands over the full windows among them, computed once.
KnownBands ==
    [h \in {w \in HistoriesAfter({fetchBitcoinHistory(c) : c \in Charts},
                                 MaxPolls + PollMaxPolls) : Len(w) >= period}
        |-> calculateBollingerBands(h)]

\* calculateBollingerBands(data) as pollPrice and initialize call it.
Bands(data) ==
    IF Len(data) >= period /\ data \in DOMAIN KnownBands
    THEN KnownBands[data]
    ELSE calculateBollingerBands(data)

\* Mutant: >= in place of >.
CooldownElapsedInclusive(t, last) == t - last >= COOLDOWN_PERIOD

\* now - lastAlertTime.current > COOLDOWN_PERIOD
CooldownElapsed(t, last) == t - last > COOLDOWN_PERIOD

\* Mutant: the lower band is tried first.
AlertMessageLowerFirst(price, newBbands) ==
    IF FLeq(price, newBbands.lower) THEN "Lower"
    ELSE IF FGeq(price, newBbands.upper) THEN "Upper"
    ELSE NULL

\* The band named in alertMessage, or null: the upper band is tried first.
AlertMessage(price, newBbands) ==
    IF FGeq(price, newBbands.upper) THEN "Upper"
    ELSE IF FLeq(price, newBbands.lower) THEN "Lower"
    ELSE NULL

\* new Date().toLocaleTimeString(): the time of day, to the second.
LocaleTime(t) == (t \div 1000) % 86400

\* The alert a resolved poll raises, or null: the closure's permission
\* state, the presence of bands and the cooldown gate the band test.
PollAlert(status, price, newBbands, t, last) ==
    IF status = "granted" /\ newBbands.present
    THEN IF CooldownElapsed(t, last) THEN AlertMessage(price, newBbands)
         ELSE NULL
    ELSE NULL

\* Mutant: setInterval runs before the history fetch is awaited.
StartInitializeWithTimer(status) ==
    [status |-> status, pc |-> "history", timer |-> TRUE, cleaned |-> FALSE]

\* A run of the polling effect up to initialize's first await: pollPrice
\* closes over the permission state of the render that created it, the
\* history fetch is in flight and intervalId is not assigned yet.
StartInitialize(status) ==
    [status |-> status, pc |-> "history", timer |-> FALSE, cleaned |-> FALSE]

\* The effect's cleanup: if (intervalId) clearInterval(intervalId).
\* intervalId is assigned only when initialize has reached setInterval.
Cleanup(e) ==
    [e EXCEPT !.cleaned = TRUE,
              !.timer = IF e.pc = "done" THEN FALSE ELSE e.timer]

\* Mutant: the catch block reports the failure to the view.
ErrorAfterPollCatchSetsError(err) == "Failed to poll price"

\* The error state after pollPrice's catch block: it only logs.
ErrorAfterPollCatch(err) == err

NoEvent ==
    [op |-> "none", eff |-> 0, src |-> "none", status |-> "none",
     price |-> Zero, alert |-> NULL, prevLen |-> 0, prevFlat |-> FALSE,
     at |-> 0, prevLast |-> 0, prevAlerts |-> 0, overlap |-> FALSE,
     rest |-> 0]

Event(op, eff, src, status) ==
    [NoEvent EXCEPT !.op = op, !.eff = eff, !.src = src, !.status = status]

IsFlat(h, v, n) == Len(h) = n /\ \A i \in 1 .. n : h[i] = v

\* ----------------------------------------------------------------- Init
\* The state after root.render: the component has rendered once, the
\* polling effect has run and initialize awaits the history fetch.  Under
\* React.StrictMode a development build mounts, cleans up and mounts the
\* effects again before anything else runs; a production build mounts once.
InitEffects(build) ==
    IF build = "development"
    THEN <<Cleanup(StartInitialize("default")), StartInitialize("default")>>
    ELSE <<StartInitialize("default")>>

InitIn(E) ==
    /\ isLoading = TRUE
    /\ error = NULL
    /\ priceHistory = <<>>
    /\ currentPrice = NoPrice
    /\ bbands = NoBands
    /\ notificationStatus = "default"
    /\ alerts = <<>>
    /\ isPollingManually = FALSE
    /\ lastAlertTime = 0
    /\ mounted = TRUE
    /\ effects \in {InitEffects(b) : b \in E.builds}
    /\ polls = {}
    /\ started = 0
    /\ now = StartTime
    /\ ticks = 0
    /\ notifications = <<>>
    /\ lastEvent = NoEvent

\* -------------------------------------------------------------- actions
\* Time passes.
Tick(d, E) ==
    /\ ticks < E.ticks
    /\ E.idle \/ ~CooldownElapsed(now, lastAlertTime)
    /\ now' = now + d
    /\ ticks' = ticks + 1
    /\ UNCHANGED <<viewState, lastAlertTime, mounted, effects, polls, started,
                   notifications, lastEvent>>

\* setNotificationStatus(s) with a new value (permissions.query, onchange,
\* requestPermission): the component renders again, pollPrice is a new
\* closure, so the polling effect is cleaned up and runs again; initialize
\* sets isLoading, clears error and fetches the history.
SetNotificationStatus(s, E) ==
    /\ mounted
    /\ s # notificationStatus
    /\ Len(effects) < E.effects
    /\ notificationStatus' = s
    /\ effects' = Append([effects EXCEPT ![Len(effects)] = Cleanup(@)],
                         StartInitialize(s))
    /\ isLoading' = TRUE
    /\ error' = NULL
    /\ lastEvent' = Event("status", Len(effects) + 1, "none", s)
    /\ UNCHANGED <<priceHistory, currentPrice, bbands, alerts,
                   isPollingManually, lastAlertTime, mounted, polls, started,
                   now, ticks, notifications>>

\* The view is torn down: the current run of the effect is cleaned up.
Unmount ==
    /\ mounted
    /\ mounted' = FALSE
    /\ effects' = [effects EXCEPT ![Len(effects)] = Cleanup(@)]
    /\ lastEvent' = Event("unmount", Len(effects), "none", "none")
    /\ UNCHANGED <<viewState, lastAlertTime, polls, started, now, ticks,
                   notifications>>

\* initialize, from the history fetch's success to the next await or the
\* end: the state is set, then setInterval(pollPrice, 30000) runs whether or
\* not the effect has been cleaned up meanwhile.  An empty history makes
\* initialize await fetchBitcoinPrice first.
InitializeHistory(i, chart) ==
    LET history == fetchBitcoinHistory(chart)
        more    == Len(history) = 0
    IN  /\ effects[i].pc = "history"
        /\ effects' = [effects EXCEPT
                          ![i].pc = IF more THEN "price" ELSE "done",
                          ![i].timer = ~more]
        /\ IF mounted
           THEN /\ priceHistory' = history
                /\ IF more
                   THEN UNCHANGED <<currentPrice, bbands, isLoading>>
                   ELSE /\ currentPrice' = history[Len(history)]
                        /\ bbands' = Bands(history)
                        /\ isLoading' = FALSE
           ELSE UNCHANGED <<priceHistory, currentPrice, bbands, isLoading>>
        /\ lastEvent' = Event(IF more THEN "initMore" ELSE "initOk", i,
                              "none", effects[i].status)
        /\ UNCHANGED <<error, notificationStatus, alerts, isPollingManually,
                       lastAlertTime, mounted, polls, started, now, ticks,
                       notifications>>

\* initialize, from the success of the price fetch that stands in for an
\* empty history to the end.
InitializePrice(i, price) ==
    /\ effects[i].pc = "price"
    /\ effects' = [effects EXCEPT ![i].pc = "done", ![i].timer = TRUE]
    /\ IF mounted
       THEN /\ currentPrice' = price
            /\ bbands' = Bands(<<>>)
            /\ isLoading' = FALSE
       ELSE UNCHANGED <<currentPrice, bbands, isLoading>>
    /\ lastEvent' = Event("initOk", i, "none", effects[i].status)
    /\ UNCHANGED <<error, priceHistory, notificationStatus, alerts,
                   isPollingManually, lastAlertTime, mounted, polls, started,
                   now, ticks, notifications>>

\* initialize's catch and finally: either fetch failed.
InitializeFail(i) ==
    /\ effects[i].pc \in {"history", "price"}
    /\ effects' = [effects EXCEPT ![i].pc = "failed"]
    /\ IF mounted
       THEN /\ error' = "fetch failed"
            /\ isLoading' = FALSE
       ELSE UNCHANGED <<error, isLoading>>
    /\ lastEvent' = Event("initFail", i, effects[i].pc, effects[i].status)
    /\ UNCHANGED <<priceHistory, currentPrice, bbands, notificationStatus,
                   alerts, isPollingManually, lastAlertTime, mounted, polls,
                   started, now, ticks, notifications>>

\* An interval fires: the pollPrice closure it was given starts a fetch.
TimerFire(i, E) ==
    /\ effects[i].timer
    /\ started < E.polls
    /\ Cardinality(polls) < E.inflight
    /\ started' = started + 1
    /\ polls' = polls \cup {[id |-> started + 1, status |-> effects[i].status,
                             src |-> "timer", overlap |-> FALSE]}
    /\ UNCHANGED <<viewState, lastAlertTime, mounted, effects, now, ticks,
                   notifications, lastEvent>>

\* handleManualPoll up to its await: the button is rendered when the view
\* is neither loading nor in error, and is disabled while a manual poll
\* runs.  It calls the pollPrice of the current render.
ManualPoll(E) ==
    /\ mounted
    /\ ~isLoading
    /\ error = NULL
    /\ ~isPollingManually
    /\ started < E.polls
    /\ Cardinality(polls) < E.inflight
    /\ isPollingManually' = TRUE
    /\ started' = started + 1
    /\ LET racing == \E q \in polls : q.src = "timer"
       IN  polls' = {IF q.src = "timer" THEN [q EXCEPT !.overlap = TRUE] ELSE q
                        : q \in polls}
                    \cup {[id |-> started + 1, status |-> notificationStatus,
                           src |-> "manual", overlap |-> racing]}
    /\ UNCHANGED <<isLoading, error, priceHistory, currentPrice, bbands,
                   notificationStatus, alerts, lastAlertTime, mounted, effects,
                   now, ticks, notifications, lastEvent>>

\* The polls that raced with q and are still in flight.
Racing(q) == Cardinality({r \in polls \ {q} : r.overlap})

\* pollPrice after fetchBitcoinPrice succeeded: the updater of
\* setPriceHistory computes the new history and bands, raises the alert,
\* and setCurrentPrice follows; handleManualPoll then clears its flag.
PollResolve(q, price) ==
    LET newHistory == NewHistory(priceHistory, price)
        newBbands  == Bands(newHistory)
        alert      == PollAlert(q.status, price, newBbands, now, lastAlertTime)
        ev == [op |-> IF mounted THEN "pollOk" ELSE "pollDropped",
               eff |-> 0, src |-> q.src, status |-> q.status,
               price |-> price, alert |-> IF mounted THEN alert ELSE NULL,
               prevLen |-> Len(priceHistory),
               prevFlat |-> IsFlat(priceHistory, price, period),
               at |-> now, prevLast |-> lastAlertTime,
               prevAlerts |-> Len(alerts),
               overlap |-> q.overlap, rest |-> Racing(q)]
    IN  /\ q \in polls
        /\ polls' = polls \ {q}
        /\ lastEvent' = ev
        /\ IF mounted
           THEN /\ priceHistory' = newHistory
                /\ bbands' = newBbands
                /\ currentPrice' = price
                /\ isPollingManually' =
                      IF q.src = "manual" THEN FALSE ELSE isPollingManually
                /\ IF alert # NULL
                   THEN /\ lastAlertTime' = now
                        /\ alerts' = NewAlerts(alerts,
                              [message |-> <<alert, price>>,
                               time |-> LocaleTime(now)])
                        /\ notifications' = Append(notifications,
                              [body |-> <<alert, price>>, at |-> now])
                   ELSE UNCHANGED <<lastAlertTime, alerts, notifications>>
           ELSE UNCHANGED <<priceHistory, bbands, currentPrice,
                            isPollingManually, lastAlertTime, alerts,
                            notifications>>
        /\ UNCHANGED <<isLoading, error, notificationStatus, mounted, effects,
                       started, now, ticks>>

\* pollPrice after fetchBitcoinPrice failed: the catch block logs.
PollFail(q) ==
    /\ q \in polls
    /\ polls' = polls \ {q}
    /\ error' = IF mounted THEN ErrorAfterPollCatch(error) ELSE error
    /\ isPollingManually' =
          IF mounted /\ q.src = "manual" THEN FALSE ELSE isPollingManually
    /\ lastEvent' = [Event("pollFail", 0, q.src, q.status)
                        EXCEPT !.overlap = q.overlap, !.rest = Racing(q)]
    /\ UNCHANGED <<isLoading, priceHistory, currentPrice, bbands,
                   notificationStatus, alerts, lastAlertTime, mounted, effects,
                   started, now, ticks, notifications>>

\* ------------------------------------------------------ specifications
\* The steps of an environment whose charts are never empty: initialize
\* then never awaits fetchBitcoinPrice.
NextCore(E) ==
    \/ \E d \in E.steps : Tick(d, E)
    \/ \E s \in E.statuses : SetNotificationStatus(s, E)
    \/ Unmount
    \/ \E i \in 1 .. Len(effects), chart \in E.charts :
          InitializeHistory(i, chart)
    \/ \E i \in 1 .. Len(effects) : InitializeFail(i)
    \/ \E i \in 1 .. Len(effects) : TimerFire(i, E)
    \/ ManualPoll(E)
    \/ \E q \in polls, price \in E.prices : PollResolve(q, price)
    \/ \E q \in polls : PollFail(q)

\* The steps of any environment.
NextIn(E) ==
    \/ NextCore(E)
    \/ \E i \in 1 .. Len(effects), price \in E.prices :
          InitializePrice(i, price)

Init == InitIn(Env)
Next == NextCore(Env)
Spec == Init /\ [][Next]_vars

InitStrict == InitIn(StrictEnv)
NextStrict == NextIn(StrictEnv)
SpecStrict == InitStrict /\ [][NextStrict]_vars

InitPoll == InitIn(PollEnv)
NextPoll == NextCore(PollEnv)
SpecPoll == InitPoll /\ [][NextPoll]_vars

InitDeep == InitIn(DeepEnv)
NextDeep == NextCore(DeepEnv)
SpecDeep == InitDeep /\ [][NextDeep]_vars

\* --------------------------------------------------------------- claims
\* The last step was a poll whose fetch succeeded while the view existed.
Polled == lastEvent.op = "pollOk"

\* That poll was evaluated with the permission granted in its closure,
\* bands present and the cooldown elapsed.
Evaluated ==
    /\ Polled
    /\ lastEvent.status = "granted"
    /\ bbands.present
    /\ lastEvent.at - lastEvent.prevLast > 300000

\* The step is a poll's successful completion.
PollCompletes ==
    /\ Cardinality(polls') < Cardinality(polls)
    /\ lastEvent'.op = "pollOk"

\* The step is a poll's failed completion.
PollFails ==
    /\ Cardinality(polls') < Cardinality(polls)
    /\ lastEvent'.op = "pollFail"

\* C1: a poll raises an alert only when more than 300000 ms have passed
\* since the previous alert, lastAlertTime is the time of the latest alert,
\* and any two notifications are more than 300000 ms apart.
C1_Cooldown ==
    /\ (Polled /\ lastEvent.alert # NULL)
          => lastEvent.at - lastEvent.prevLast > 300000
    /\ lastAlertTime = IF notifications = <<>> THEN 0
                       ELSE notifications[Len(notifications)].at
    /\ \A i, j \in 1 .. Len(notifications) :
          i < j => notifications[j].at - notifications[i].at > 300000

\* C1 witness: a poll touched a band exactly 300000 ms after the previous
\* alert and raised nothing.
C1_Witness ==
    /\ Polled
    /\ lastEvent.status = "granted"
    /\ bbands.present
    /\ FGeq(lastEvent.price, bbands.upper) \/ FLeq(lastEvent.price, bbands.lower)
    /\ lastEvent.prevLast > 0
    /\ lastEvent.at - lastEvent.prevLast = 300000
    /\ lastEvent.alert = NULL
    /\ Len(notifications) = 1

\* C2: an evaluated poll alerts "Upper" exactly when price >= upper,
\* "Lower" exactly when price < upper and price <= lower, and nothing
\* exactly when lower < price < upper.
C2_TouchSemantics ==
    Evaluated =>
        /\ lastEvent.alert = "Upper" <=> FGeq(lastEvent.price, bbands.upper)
        /\ lastEvent.alert = "Lower" <=>
              (FLess(lastEvent.price, bbands.upper)
               /\ FLeq(lastEvent.price, bbands.lower))
        /\ lastEvent.alert = NULL <=>
              (FLess(bbands.lower, lastEvent.price)
               /\ FLess(lastEvent.price, bbands.upper))

\* C2 witness: the price satisfied both comparisons and the alert named the
\* upper band.
C2_Witness ==
    /\ Evaluated
    /\ FGeq(lastEvent.price, bbands.upper)
    /\ FLeq(lastEvent.price, bbands.lower)
    /\ lastEvent.alert = "Upper"

\* C3: the history never holds more than 20 prices, and a successful poll
\* sets it to the last 19 entries of the previous history followed by the
\* new price.
C3_HistoryWindow ==
    /\ [](Len(priceHistory) <= 20)
    /\ [][PollCompletes =>
            priceHistory' = SliceLast(priceHistory, 19) \o <<lastEvent'.price>>]_vars

\* C3 witness: a poll on a full history evicted the oldest entry and the
\* new price, different from the one before it, is last.
C3_Witness ==
    /\ Polled
    /\ lastEvent.prevLen = 20
    /\ Len(priceHistory) = 20
    /\ priceHistory[20] = lastEvent.price
    /\ priceHistory[19] # priceHistory[20]

\* C4: the alert list never holds more than 10 entries; a raised alert is
\* put first, the earlier entries follow in order, and the eleventh is
\* dropped.
C4_AlertList ==
    /\ [](Len(alerts) <= 10)
    /\ [][notifications' # notifications =>
            /\ Len(alerts') = (IF Len(alerts) < 10 THEN Len(alerts) + 1 ELSE 10)
            /\ alerts'[1].message = notifications'[Len(notifications')].body
            /\ alerts'[1].time = LocaleTime(notifications'[Len(notifications')].at)
            /\ \A i \in 2 .. Len(alerts') : alerts'[i] = alerts[i - 1]]_vars

\* C4 witness: an eleventh alert was added to a full list.
C4_Witness ==
    /\ Len(notifications) = 11
    /\ Len(alerts) = 10
    /\ alerts[1].time # alerts[2].time

\* C5: a poll evaluated while the permission state is not granted, or while
\* the updated history has fewer than 20 prices, raises no alert, adds no
\* alert record and leaves lastAlertTime unchanged.
C5_NoAlertUnlessGranted ==
    (Polled /\ (notificationStatus # "granted" \/ Len(priceHistory) < 20)) =>
        /\ lastEvent.alert = NULL
        /\ Len(alerts) = lastEvent.prevAlerts
        /\ lastAlertTime = lastEvent.prevLast

\* C6: once a run of the polling effect has been cleaned up, it holds no
\* active timer.
C6_TeardownStopsTimer ==
    \A i \in 1 .. Len(effects) : effects[i].cleaned => ~effects[i].timer

\* C7: a failed poll leaves the history, bands, current price, alerts,
\* lastAlertTime and error state unchanged, starts no other poll and leaves
\* every timer as it was.
C7_PollFailureIsQuiet ==
    [][PollFails =>
         /\ UNCHANGED <<priceHistory, bbands, currentPrice, alerts,
                        lastAlertTime, error, notifications>>
         /\ UNCHANGED <<effects, started>>
         /\ polls' \subseteq polls]_vars

\* C7 witness: a timer's poll failed on a seeded view and the timer is
\* still active.
C7_Witness ==
    /\ lastEvent.op = "pollFail"
    /\ lastEvent.src = "timer"
    /\ mounted
    /\ error = NULL
    /\ Len(priceHistory) = 20
    /\ \E i \in 1 .. Len(effects) : effects[i].timer

\* The last poll returned the value the history already held 20 times.
FlatPoll ==
    /\ Evaluated
    /\ lastEvent.prevFlat

\* C8 as stated: on a flat window every band equals the value and the poll
\* alerts "Upper".
C8_FlatAlwaysUpper ==
    FlatPoll =>
        /\ bbands.upper = lastEvent.price
        /\ bbands.middle = lastEvent.price
        /\ bbands.lower = lastEvent.price
        /\ lastEvent.alert = "Upper"

\* k * v is a floating-point number: no rounding when it is formed.
ExactMultiple(v, k) ==
    \E e \in 0 .. 5 : (k * v[1]) % Pow2(e) = 0
                      /\ Abs(k * v[1]) \div Pow2(e) < Pow2(MantBits)

\* v, 2v, ..., 20v are all floating-point numbers.
ExactSums(v) == \A k \in 1 .. 20 : ExactMultiple(v, k)

\* C8 amended: on a flat window of a value whose multiples up to 20 are
\* exact, every band equals the value and the poll alerts "Upper".
C8_FlatExactUpper ==
    (FlatPoll /\ ExactSums(lastEvent.price)) =>
        /\ bbands.upper = lastEvent.price
        /\ bbands.middle = lastEvent.price
        /\ bbands.lower = lastEvent.price
        /\ lastEvent.alert = "Upper"

\* C8 witness: a poll of 10 on twenty 10s alerted "Upper".
C8_Witness ==
    /\ FlatPoll
    /\ ExactSums(lastEvent.price)
    /\ lastEvent.price = Flt(10)
    /\ bbands.upper = Flt(10)
    /\ lastEvent.alert = "Upper"

\* C9: when the last of a manual poll and the timer poll it raced with
\* succeeds, the newest history entry and the current price are the price
\* it returned.
C9_LastResolvedWins ==
    (Polled /\ lastEvent.overlap /\ lastEvent.rest = 0) =>
        /\ priceHistory[Len(priceHistory)] = lastEvent.price
        /\ currentPrice = lastEvent.price

\* C9 witness: the timer poll resolved after the manual poll issued while
\* it was in flight, each with its own price.
C9_Witness ==
    /\ Polled
    /\ lastEvent.overlap
    /\ lastEvent.rest = 0
    /\ lastEvent.src = "timer"
    /\ lastEvent.price = Flt(201)
    /\ Len(priceHistory) = 20
    /\ priceHistory[19] = Flt(12)
    /\ currentPrice = Flt(201)

\* C10: a run of the effect holds a timer only once its initialize has
\* succeeded; a run whose fetch failed holds none; when initialize ends,
\* loading has ended, and after a failure the error state is set.
C10_StartupOrdering ==
    /\ \A i \in 1 .. Len(effects) :
          /\ effects[i].timer => effects[i].pc = "done"
          /\ effects[i].pc = "failed" => ~effects[i].timer
    /\ (lastEvent.op = "initOk" /\ mounted) =>
          /\ ~isLoading
          /\ effects[lastEvent.eff].pc = "done"
    /\ (lastEvent.op = "initFail" /\ mounted) =>
          /\ ~isLoading
          /\ error # NULL
          /\ effects[lastEvent.eff].pc = "failed"

\* C10 witness: the price fetch that stands in for an empty history failed;
\* the view is in the error state and the run holds no timer.
C10_Witness ==
    /\ lastEvent.op = "initFail"
    /\ lastEvent.src = "price"
    /\ mounted
    /\ priceHistory = <<>>
    /\ error # NULL
    /\ ~isLoading
    /\ \A i \in 1 .. Len(effects) : ~effects[i].timer

====
